---- MODULE Spec2Model ----
(***************************************************************************)
(* Model of regrasping_demo/homotopy_planner.py: the placement planner     *)
(* `plan` and the functions it is built from.                              *)
(*                                                                         *)
(* Numbers.  The program computes in float64; the model computes in        *)
(* integers:                                                               *)
(*   - a point is a pair <<x, y>> of integers, in pixels;                  *)
(*   - a path parameter t is a fraction n/d, and a point returned by a     *)
(*     path carries the factor d (the pair holds d*x and d*y);             *)
(*   - np.linalg.norm values are carried as their squares, and every       *)
(*     comparison of norms is rewritten into the equivalent comparison of  *)
(*     squares;                                                            *)
(*   - angles are integers in microradians; arctan2 is evaluated from a    *)
(*     65-entry table with linear interpolation (error below 1e-3 rad over *)
(*     a whole sweep, against a rounding step of pi).                      *)
(***************************************************************************)
EXTENDS Integers, Sequences, FiniteSets, TLC

\* ------------------------------------------------------------------------
\* Bounds of the model
\* ------------------------------------------------------------------------
\* number of iterations of the search loop explored (range(5000) in the code)
Budget == 2
\* number of successive calls of plan with the same arguments
MaxCalls == 2
\* longest waypoint list handed to make_tau when it is called on its own
MaxWaypoints == 2

\* ------------------------------------------------------------------------
\* Program constants
\* ------------------------------------------------------------------------
\* dt = 0.05: the sweep makes 20 steps per unit of t
StepsPerUnit == 20
\* np.arange(0, 2, dt): the sweep covers t in [0, 2)
SweepSpan == 2
\* cv2.dilate kernel np.ones((20, 20))
KernelSize == 20
\* np.random.uniform(-150, 150, [2])
PerturbPx == 150
\* default arguments of plan
robot_reach_px == 750
extend_px == 100
near_tol_num == 3
near_tol_den == 10

\* pi and 2*pi in microradians
PI_U == 3141593
TWO_PI_U == 6283185

\* ------------------------------------------------------------------------
\* Arithmetic helpers
\* ------------------------------------------------------------------------
Abs(a) == IF a < 0 THEN -a ELSE a
Max(a, b) == IF a >= b THEN a ELSE b
Min(a, b) == IF a <= b THEN a ELSE b

RECURSIVE GCD(_, _)
GCD(a, b) == IF b = 0 THEN a ELSE GCD(b, a % b)

\* squared Euclidean norm of p - q (np.linalg.norm(p - q) ** 2)
NormSq(p, q) == (p[1] - q[1]) * (p[1] - q[1]) + (p[2] - q[2]) * (p[2] - q[2])

\* arctan(i / 64) in microradians, i = 0..64
AtanTable ==
  << 0, 15624, 31240, 46841, 62419, 77967, 93477, 108942, 124355, 139709,
     154997, 170212, 185348, 200399, 215358, 230220, 244979, 259630, 274167,
     288587, 302885, 317056, 331096, 345002, 358771, 372398, 385883, 399221,
     412410, 425450, 438337, 451070, 463648, 476069, 488334, 500441, 512389,
     524180, 535811, 547284, 558599, 569756, 580756, 591600, 602287, 612820,
     623199, 633426, 643501, 653426, 663203, 672833, 682317, 691657, 700854,
     709912, 718830, 727611, 736257, 744770, 753151, 761403, 769526, 777524,
     785398 >>

\* arctan(a / b) for 0 <= a <= b < 32768, b > 0, in microradians
AtanUnit(a, b) ==
  LET q == (a * 65536) \div b
      j == q \div 1024
      f == q % 1024
  IN  IF f = 0 THEN AtanTable[j + 1]
      ELSE AtanTable[j + 1] + ((AtanTable[j + 2] - AtanTable[j + 1]) * f) \div 1024

\* np.arctan2(y, x) in microradians, in (-pi, pi]; arctan2(0, 0) = 0
ArcTan2(y, x) ==
  IF x = 0 /\ y = 0 THEN 0
  ELSE
    LET m  == Max(Abs(x), Abs(y))
        s  == m \div 32768 + 1
        ay == Abs(y) \div s
        ax == Abs(x) \div s
        base == IF ay <= ax THEN AtanUnit(ay, ax)
                ELSE PI_U \div 2 - AtanUnit(ax, ay)
        mag  == IF x >= 0 THEN base ELSE PI_U - base
    IN  IF y < 0 THEN -mag ELSE mag

\* ------------------------------------------------------------------------
\* make_tau
\* ------------------------------------------------------------------------
\* The path function _tau returned by make_tau(start, end, waypoints),
\* applied to t = n/d.  The result is [raised, z]: raised is TRUE when the
\* code raises IndexError, z is the returned point times d.
\* line 25: all_points, the control points of the path
all_points_of(start, end, waypoints) == <<start>> \o waypoints \o <<end>>

make_tau_len(start, end, waypoints, n, d) ==
  LET all_points == all_points_of(start, end, waypoints)
      frac_n == n * Len(all_points)
      waypoint_idx == frac_n \div d
      alpha_n == frac_n - waypoint_idx * d
  IN  IF n = 0 THEN [raised |-> FALSE, z |-> <<d * start[1], d * start[2]>>]
      ELSE IF n = d THEN [raised |-> FALSE, z |-> <<d * end[1], d * end[2]>>]
      ELSE IF waypoint_idx + 2 > Len(all_points)
      THEN [raised |-> TRUE, z |-> <<0, 0>>]
      ELSE LET p == all_points[waypoint_idx + 1]
               q == all_points[waypoint_idx + 2]
           IN  [raised |-> FALSE,
                z |-> << (d - alpha_n) * p[1] + alpha_n * q[1],
                         (d - alpha_n) * p[2] + alpha_n * q[2] >>]

make_tau_no_end_case(start, end, waypoints, n, d) ==
  LET all_points == all_points_of(start, end, waypoints)
      frac_n == n * (Len(all_points) - 1)
      waypoint_idx == frac_n \div d
      alpha_n == frac_n - waypoint_idx * d
  IN  IF n = 0 THEN [raised |-> FALSE, z |-> <<d * start[1], d * start[2]>>]
      ELSE IF waypoint_idx + 2 > Len(all_points)
      THEN [raised |-> TRUE, z |-> <<0, 0>>]
      ELSE LET p == all_points[waypoint_idx + 1]
               q == all_points[waypoint_idx + 2]
           IN  [raised |-> FALSE,
                z |-> << (d - alpha_n) * p[1] + alpha_n * q[1],
                         (d - alpha_n) * p[2] + alpha_n * q[2] >>]

make_tau(start, end, waypoints, n, d) ==
  LET all_points == all_points_of(start, end, waypoints)
      frac_n == n * (Len(all_points) - 1)
      waypoint_idx == frac_n \div d
      alpha_n == frac_n - waypoint_idx * d
  IN  IF n = 0 THEN [raised |-> FALSE, z |-> <<d * start[1], d * start[2]>>]
      ELSE IF n = d THEN [raised |-> FALSE, z |-> <<d * end[1], d * end[2]>>]
      ELSE IF waypoint_idx + 2 > Len(all_points)
      THEN [raised |-> TRUE, z |-> <<0, 0>>]
      ELSE LET p == all_points[waypoint_idx + 1]
               q == all_points[waypoint_idx + 2]
           IN  [raised |-> FALSE,
                z |-> << (d - alpha_n) * p[1] + alpha_n * q[1],
                         (d - alpha_n) * p[2] + alpha_n * q[2] >>]

\* ------------------------------------------------------------------------
\* angle_between, relative_distance_deviation
\* ------------------------------------------------------------------------
angle_between(w, v) ==
  ArcTan2(w[2] * v[1] - v[2] * w[1], w[1] * v[1] + w[2] * v[2])

\* relative_distance_deviation(dist0, sample_px, start_px) < tol, for
\* tol = tol_num / tol_den < 1 and dist0 given by its square dist0_sq:
\*   ((d - d0) / d0)^2 < tol
\*     <=>  tol_den * D + (tol_den - tol_num) * D0 < 2 * tol_den * d * d0
\*     <=>  (tol_den * D + (tol_den - tol_num) * D0)^2 < 4 * tol_den^2 * D * D0
\* with D = d^2, D0 = d0^2.  A zero dist0 makes the quotient inf or nan,
\* and the comparison False.  D and D0 are divided by their gcd first: the
\* inequality is homogeneous.
relative_distance_deviation_lt(dist0_sq, sample_px, start_px, tol_num, tol_den) ==
  LET Dfull == NormSq(sample_px, start_px)
      g  == GCD(Max(Dfull, dist0_sq), Min(Dfull, dist0_sq))
      D  == Dfull \div g
      D0 == dist0_sq \div g
      lhs == tol_den * D + (tol_den - tol_num) * D0
  IN  IF dist0_sq = 0 THEN FALSE
      ELSE lhs * lhs < 4 * tol_den * tol_den * D * D0

\* ------------------------------------------------------------------------
\* is_homotopy_diff
\* ------------------------------------------------------------------------
\* line 57: the waypoints handed to make_tau for tau1
tau1_waypoints(hose_points) == hose_points
\* line 58: the waypoints handed to make_tau for tau2
tau2_waypoints(place_point) == << place_point >>

\* the k-th point of the sweep, t = k * dt, times StepsPerUnit
SweepPoint(hose_points, start, end, place_point, k) ==
  IF k < StepsPerUnit
  THEN make_tau(start, end, tau1_waypoints(hose_points), k, StepsPerUnit).z
  ELSE make_tau(start, end, tau2_waypoints(place_point),
                SweepSpan * StepsPerUnit - k, StepsPerUnit).z

sweep_points_closed(hose_points, start, end, place_point) ==
  [k \in 1..(SweepSpan * StepsPerUnit + 1) |->
     SweepPoint(hose_points, start, end, place_point, k - 1)]

\* the values of z in the order the loop of lines 66-78 computes them for
\* one obstacle, times StepsPerUnit
sweep_points(hose_points, start, end, place_point) ==
  [k \in 1..(SweepSpan * StepsPerUnit) |->
     SweepPoint(hose_points, start, end, place_point, k - 1)]

\* vec = z - object_center at step k, times StepsPerUnit
SweepVec(hose_points, start, end, place_point, object_center, k) ==
  LET z == SweepPoint(hose_points, start, end, place_point, k)
  IN  << z[1] - StepsPerUnit * object_center[1],
         z[2] - StepsPerUnit * object_center[2] >>

\* integral_angle after the steps 0..k of the sweep (step 0 adds nothing:
\* last_vec is None)
RECURSIVE integral_angle(_, _, _, _, _, _)
integral_angle(hose_points, start, end, place_point, object_center, k) ==
  IF k = 0 THEN 0
  ELSE integral_angle(hose_points, start, end, place_point, object_center, k - 1)
       + angle_between(
           SweepVec(hose_points, start, end, place_point, object_center, k),
           SweepVec(hose_points, start, end, place_point, object_center, k - 1))

\* np.round(x / (2 * np.pi)): the nearest whole number of turns
RoundTurns(angle) == (angle + PI_U) \div TWO_PI_U

\* winding_number of one obstacle, in microradians
winding_number(hose_points, start, end, place_point, object_center) ==
  RoundTurns(integral_angle(hose_points, start, end, place_point, object_center,
                            SweepSpan * StepsPerUnit - 1)) * TWO_PI_U

windings_allclose_zero_signed(windings) ==
  \A j \in DOMAIN windings : windings[j] * 100 <= 1

windings_allclose_zero_nonempty(windings) ==
  /\ windings # << >>
  /\ \A j \in DOMAIN windings : Abs(windings[j]) * 100 <= 1

\* np.allclose(windings, 0): |w - 0| <= atol + rtol * |0|, atol = 1e-8 rad
windings_allclose_zero(windings) ==
  \A j \in DOMAIN windings : Abs(windings[j]) * 100 <= 1

is_homotopy_diff(hose_points, start, end, place_point, obstacle_centers) ==
  LET windings == [j \in DOMAIN obstacle_centers |->
                     winding_number(hose_points, start, end, place_point,
                                    obstacle_centers[j])]
  IN  ~ windings_allclose_zero(windings)

\* ------------------------------------------------------------------------
\* Masks and obstacle centres
\* ------------------------------------------------------------------------
\* A mask is [shape |-> <<rows, cols>>, on |-> the set of its nonzero
\* pixels <<x, y>>].  predictions is the sequence of the masks of the
\* "battery" instances.

\* arm_segmentation.predictor.get_combined_mask: the union of the masks
get_combined_mask(predictions, h, w) ==
  [shape |-> <<h, w>>,
   on |-> UNION {predictions[j].on : j \in DOMAIN predictions}]

\* cv2.dilate with a KernelSize x KernelSize kernel of ones anchored at its
\* centre (KernelSize \div 2): pixel (x, y) is set iff the source has a set
\* pixel at (x + dx, y + dy) for some dx, dy in -10..9
inflate_mask_corner_anchor(mask) ==
  [shape |-> mask.shape,
   on |-> UNION { { <<x, y>> :
                      x \in Max(0, q[1] + 1)
                              .. Min(mask.shape[2] - 1, q[1] + KernelSize),
                      y \in Max(0, q[2] + 1)
                              .. Min(mask.shape[1] - 1, q[2] + KernelSize) }
                  : q \in mask.on }]

inflate_mask(mask) ==
  LET a == KernelSize \div 2
  IN  [shape |-> mask.shape,
       on |-> UNION { { <<x, y>> :
                          x \in Max(0, q[1] - (KernelSize - 1 - a))
                                  .. Min(mask.shape[2] - 1, q[1] + a),
                          y \in Max(0, q[2] - (KernelSize - 1 - a))
                                  .. Min(mask.shape[1] - 1, q[2] + a) }
                      : q \in mask.on }]

RECURSIVE SumCoord(_, _)
SumCoord(pixels, c) ==
  IF pixels = {} THEN 0
  ELSE LET p == CHOOSE p \in pixels : TRUE
       IN  p[c] + SumCoord(pixels \ {p}, c)

\* detect_regrasp_point.get_center_of_mass: the mean of the pixel support
get_center_of_mass(mask) ==
  << SumCoord(mask.on, 1) \div Cardinality(mask.on),
     SumCoord(mask.on, 2) \div Cardinality(mask.on) >>

get_obstacle_coms(predictions) ==
  [j \in DOMAIN predictions |-> get_center_of_mass(predictions[j])]

\* int(num / den): Python's int() of a float truncates towards zero
IntTrunc(num, den) ==
  IF num >= 0 THEN num \div den ELSE -((-num) \div den)

\* mask[row, col] of a numpy array: an index k in -n..-1 reads element
\* n + k, an index outside -n..n-1 raises IndexError.  The result is
\* [raised, value].
mask_at(mask, row, col) ==
  LET rows == mask.shape[1]
      cols == mask.shape[2]
      r == IF row < 0 THEN row + rows ELSE row
      c == IF col < 0 THEN col + cols ELSE col
  IN  IF r < 0 \/ r >= rows \/ c < 0 \/ c >= cols
      THEN [raised |-> TRUE, value |-> FALSE]
      ELSE [raised |-> FALSE, value |-> << c, r >> \in mask.on]

collision_lookup_no_lower_bound(inflated_obstacles_mask, num, den) ==
  IF num[1] >= den * inflated_obstacles_mask.shape[2]
  THEN [indexed |-> FALSE, row |-> 0, col |-> 0, raised |-> FALSE, value |-> FALSE]
  ELSE IF num[2] >= den * inflated_obstacles_mask.shape[1]
  THEN [indexed |-> FALSE, row |-> 0, col |-> 0, raised |-> FALSE, value |-> FALSE]
  ELSE LET row == IntTrunc(num[2], den)
           col == IntTrunc(num[1], den)
           m == mask_at(inflated_obstacles_mask, row, col)
       IN  [indexed |-> TRUE, row |-> row, col |-> col,
            raised |-> m.raised, value |-> m.value]

\* is_in_collision on the sample num / den (both coordinates over den):
\* whether the mask is indexed, the index used, and the value returned
collision_lookup(inflated_obstacles_mask, num, den) ==
  IF num[1] < 0 \/ num[1] >= den * inflated_obstacles_mask.shape[2]
  THEN [indexed |-> FALSE, row |-> 0, col |-> 0, raised |-> FALSE, value |-> FALSE]
  ELSE IF num[2] < 0 \/ num[2] >= den * inflated_obstacles_mask.shape[1]
  THEN [indexed |-> FALSE, row |-> 0, col |-> 0, raised |-> FALSE, value |-> FALSE]
  ELSE LET row == IntTrunc(num[2], den)
           col == IntTrunc(num[1], den)
           m == mask_at(inflated_obstacles_mask, row, col)
       IN  [indexed |-> TRUE, row |-> row, col |-> col,
            raised |-> m.raised, value |-> m.value]

\* is_in_collision on a sample of whole pixels
is_in_collision(inflated_obstacles_mask, sample_px) ==
  collision_lookup(inflated_obstacles_mask, sample_px, 1).value

\* ------------------------------------------------------------------------
\* Random streams
\* ------------------------------------------------------------------------
\* A generator yields numbers u / UnitDen of [0, 1); uniform(lo, hi) is
\* lo + (hi - lo) * u / UnitDen.
UnitDen == 6
Uniform(u, lo, hi) == lo + ((hi - lo) * u) \div UnitDen

sample_point_swapped(rng, hh, ww, ext) ==
  [sample_px |-> << Uniform(rng.stream[rng.pos + 2], -ext, ww + ext),
                    Uniform(rng.stream[rng.pos + 1], -ext, hh + ext) >>,
   rng |-> [rng EXCEPT !.pos = rng.pos + 2]]

sample_point_wide(rng, hh, ww, ext) ==
  [sample_px |-> << Uniform(rng.stream[rng.pos + 1], -2 * ext, ww),
                    Uniform(rng.stream[rng.pos + 2], -2 * ext, hh) >>,
   rng |-> [rng EXCEPT !.pos = rng.pos + 2]]

sample_point_twice(rng, hh, ww, ext) ==
  [sample_px |-> << Uniform(rng.stream[rng.pos + 1], -ext, ww + ext),
                    Uniform(rng.stream[rng.pos + 2], -ext, hh + ext) >>,
   rng |-> [rng EXCEPT !.pos = rng.pos + 4]]

\* rng is [stream, pos]: the stream of np.random.RandomState(0) and the
\* number of values already drawn from it
sample_point(rng, hh, ww, ext) ==
  [sample_px |-> << Uniform(rng.stream[rng.pos + 1], -ext, ww + ext),
                    Uniform(rng.stream[rng.pos + 2], -ext, hh + ext) >>,
   rng |-> [rng EXCEPT !.pos = rng.pos + 2]]

clip_lower_only(p, w, h) == << Max(p[1], 0), Max(p[2], 0) >>

\* np.clip(p, 0, [w, h])
clip(p, w, h) == << Min(Max(p[1], 0), w), Min(Max(p[2], 0), h) >>

\* np.allclose(a, b): every |a - b| <= atol + rtol * |b|, atol = 1e-8,
\* rtol = 1e-5; times 1e5 and on whole pixels: |a - b| * 1e5 <= |b|
allclose(a, b) ==
  /\ Abs(a[1] - b[1]) * 100000 <= Abs(b[1])
  /\ Abs(a[2] - b[2]) * 100000 <= Abs(b[2])

\* np.random.uniform(-150, 150, [2]) drawn from the process-wide generator
\* in state st: two consecutive values.  The generator is a cycle of UnitDen
\* states; the value drawn in state st is st / UnitDen.
np_random_uniform2(st) ==
  << Uniform(st % UnitDen, -PerturbPx, PerturbPx),
     Uniform((st + 1) % UnitDen, -PerturbPx, PerturbPx) >>
np_random_advance2(st) == (st + 2) % UnitDen

\* np.linalg.norm(robot_px - sample_px) < robot_reach_px
is_reachable(robot, sample, reach) == NormSq(robot, sample) < reach * reach

\* all([...]) of line 180
any_of(flags) == \E j \in DOMAIN flags : flags[j]
all_of(flags) == \A j \in DOMAIN flags : flags[j]

\* ------------------------------------------------------------------------
\* Inputs explored
\* ------------------------------------------------------------------------
Frames == { <<100, 100>> }

Battery1 == [shape |-> <<100, 100>>, on |-> { <<55, 45>> }]
Battery2 == [shape |-> <<100, 100>>, on |-> { <<20, 80>> }]
PredictionSets == { << >>, << Battery1 >>, << Battery1, Battery2 >> }

HoseSets == { << <<10, 10>>, <<90, 10>>, <<90, 90>> >>,
              << <<10, 10>>, <<90, 90>> >> }

RegraspSet == { <<10, 10>>, <<90, 90>>, <<90, 10>>, <<130, -20>> }
RobotSet == { <<50, 50>>, <<900, 900>> }

\* pairs of consecutive values (in units of 1 / UnitDen) of the stream of
\* RandomState(0); with a 100 x 100 frame they give the samples
\* (-50, 50), (100, 0), (50, 50) and (0, 50)
SamplePairs == { <<1, 3>>, <<4, 2>>, <<3, 3>>, <<2, 3>> }

\* states of the process-wide generator when the caller first calls plan
NpRandomStart == { 0, 3 }

RECURSIVE Flatten(_)
Flatten(pairs) ==
  IF pairs = << >> THEN << >>
  ELSE <<pairs[1][1], pairs[1][2]>> \o Flatten(Tail(pairs))

Seed0Streams == { Flatten(ps) : ps \in [1..Budget -> SamplePairs] }

TauPoints == { <<0, 0>>, <<8, 4>>, <<-4, 12>> }
TauStarts == { <<0, 0>>, <<8, 4>> }
TauWaypointLists ==
  UNION { [1..len -> TauPoints] : len \in 0..MaxWaypoints }
\* t = n / d
TauDens == { 1, 4, 6, 20 }

\* arguments of is_homotopy_diff called on its own: the polylines of plan,
\* the mirror image of the first, and a five-point polyline whose corner
\* (90, 10) lies between two steps of the sweep
HdHoseSets ==
  HoseSets \cup
  { << <<10, 10>>, <<10, 90>>, <<90, 90>> >>,
    << <<10, 10>>, <<90, 10>>, <<90, 50>>, <<90, 70>>, <<90, 90>> >> }
\* arguments of is_in_collision called on its own: the inflated masks of
\* plan and samples in half pixels, from -100 to 199.5
IcMasks ==
  { inflate_mask(get_combined_mask(ps, 100, 100)) : ps \in PredictionSets }
IcDen == 2
IcCoords == { -200, -1, 0, 91, 111, 199, 200, 399 }

HdPlacePoints == { <<0, 100>>, <<100, 0>>, <<50, 50>>, <<-100, -100>> }
HdCenterLists ==
  { get_obstacle_coms(ps) : ps \in PredictionSets } \cup { << <<88, 11>> >> }

\* ------------------------------------------------------------------------
\* State
\* ------------------------------------------------------------------------
VARIABLES
  mode,             \* the function the caller exercises
  rgb_shape,        \* rgb_np.shape[:2] = <<h, w>>
  predictions,      \* argument of plan
  hose_points,      \* argument of plan
  regrasp_px,       \* argument of plan
  robot_px,         \* argument of plan
  np_random,        \* state of the process-wide generator np.random
  seed0,            \* the stream every np.random.RandomState(0) produces
  pc,               \* position in plan: idle, loop, returned, raised
  i,                \* loop variable of the search loop
  rng,              \* the local generator of plan
  random_place_px,  \* local of plan
  sample_px,        \* local of plan: the sample drawn last
  drawn,            \* number of samples drawn by the current call
  result,           \* the pair returned by the current call
  calls,            \* number of calls of plan started
  first_result,     \* the pair returned by the first call
  tau_args, tau_out,  \* a call of the path made by make_tau, and its result
  hd_args, hd_out,    \* a call of is_homotopy_diff, and its result
  ic_args, ic_out,    \* a call of is_in_collision, and its result
  dpc,              \* position in the function of the demo script
  attempts,         \* attempts made by the retry loop that is running
  spiral,           \* items the current spiral_search generator has yielded
  cmds,             \* the commands sent to the robot, in order
  last,             \* how the last call into the environment ended
  feedback,         \* the last feedback poll of drag_rope_to_goal
  goal_in_odom,     \* main: the goal found, in decimetres
  goal_reached,     \* go_to_goal: what drag_rope_to_goal returned
  graph,            \* self.map.graph: the waypoints and edges of the map
  snapshots,        \* the waypoints whose snapshot_id is in waypoint_snapshots
  gpc,              \* position in create_graph_objects
  queue,            \* local of create_graph_objects
  visited,          \* local of create_graph_objects
  actors,           \* the actors added to the renderer, in order
  avg_pos,          \* local of create_graph_objects
  avg_result        \* the value create_graph_objects returned

vars == << mode, rgb_shape, predictions, hose_points, regrasp_px, robot_px,
           np_random, seed0, pc, i, rng, random_place_px, sample_px, drawn,
           result, calls, first_result, tau_args, tau_out, hd_args, hd_out,
           ic_args, ic_out, dpc, attempts, spiral, cmds, last, feedback,
           goal_in_odom, goal_reached, graph, snapshots, gpc, queue, visited,
           actors, avg_pos, avg_result >>

plan_args == << rgb_shape, predictions, hose_points, regrasp_px, robot_px, seed0 >>
fn_vars == << tau_args, tau_out, hd_args, hd_out, ic_args, ic_out >>
demo_vars == << dpc, attempts, spiral, cmds, last, feedback, goal_in_odom,
               goal_reached >>
planner_vars == << plan_args, np_random, pc, i, rng, random_place_px, sample_px,
                  drawn, result, calls, first_result, fn_vars >>

graph_vars == << graph, snapshots, gpc, queue, visited, actors, avg_pos,
                avg_result >>

NoFeedback == [status |-> "none", at_goal |-> FALSE, high_force |-> FALSE]
\* the demo script is not running
DemoIdle ==
  /\ dpc = "none" /\ attempts = 0 /\ spiral = 0 /\ cmds = << >>
  /\ last = "none" /\ feedback = NoFeedback /\ goal_in_odom = <<0, 0>>
  /\ goal_reached = FALSE

\* create_graph_objects is not running
GraphIdle ==
  /\ graph = [waypoints |-> << >>, edges |-> << >>] /\ snapshots = {}
  /\ gpc = "none" /\ queue = << >> /\ visited = {} /\ actors = << >>
  /\ avg_pos = 0 /\ avg_result = <<0, 1>>

NoPoint == <<0, 0>>
\* a result is the returned pair and obj, the array object its point is:
\* the array bound to random_place_px (made by np.clip, line 156) or the
\* array bound to sample_px (made by np.array, line 120)
NoResult == [success |-> FALSE, point |-> NoPoint, obj |-> "none"]
NoRng == [stream |-> << >>, pos |-> 0]
NoTauArgs == [start |-> NoPoint, end |-> NoPoint, waypoints |-> << >>, n |-> 0, d |-> 1]
NoTauOut == [called |-> FALSE, raised |-> FALSE, z |-> NoPoint]
NoHdArgs == [hose_points |-> << NoPoint >>, place_point |-> NoPoint,
             obstacle_centers |-> << >>]
NoIcArgs == [mask |-> [shape |-> <<1, 1>>, on |-> {}], num |-> NoPoint, den |-> 1]
NoIcOut == [called |-> FALSE, indexed |-> FALSE, row |-> 0, col |-> 0,
            raised |-> FALSE, value |-> FALSE]
NoHdOut == [called |-> FALSE, value |-> FALSE, sweep |-> << >>]

\* locals of plan that depend on its arguments only (lines 126-134)
h == rgb_shape[1]
w == rgb_shape[2]
obstacles_mask == get_combined_mask(predictions, h, w)
inflated_obstacles_mask == inflate_mask(obstacles_mask)
obstacle_coms == get_obstacle_coms(predictions)
start_px == hose_points[1]
end_px == hose_points[Len(hose_points)]
dist_to_start0_sq == NormSq(regrasp_px, start_px)
dist_to_end0_sq == NormSq(regrasp_px, end_px)

\* the five predicates of lines 169-173 on a sample
homotopy_diff(s) == is_homotopy_diff(hose_points, start_px, end_px, s, obstacle_coms)
in_collision(s) == is_in_collision(inflated_obstacles_mask, s)
reachable(s) == is_reachable(robot_px, s, robot_reach_px)
near_start(s) ==
  relative_distance_deviation_lt(dist_to_start0_sq, s, start_px, near_tol_num, near_tol_den)
near_end(s) ==
  relative_distance_deviation_lt(dist_to_end0_sq, s, end_px, near_tol_num, near_tol_den)

PlanIdle ==
  /\ pc = "idle" /\ i = 0 /\ rng = NoRng /\ random_place_px = NoPoint
  /\ sample_px = NoPoint
  /\ drawn = 0 /\ result = NoResult

InitPlan ==
  /\ mode = "plan"
  /\ DemoIdle
  /\ GraphIdle
  /\ rgb_shape \in Frames
  /\ predictions \in PredictionSets
  /\ hose_points \in HoseSets
  /\ regrasp_px \in RegraspSet
  /\ robot_px \in RobotSet
  /\ np_random \in NpRandomStart
  /\ seed0 \in Seed0Streams
  /\ PlanIdle
  /\ calls = 0
  /\ first_result = NoResult
  /\ tau_args = NoTauArgs /\ tau_out = NoTauOut
  /\ hd_args = NoHdArgs /\ hd_out = NoHdOut
  /\ ic_args = NoIcArgs /\ ic_out = NoIcOut

NoPlan ==
  /\ rgb_shape = <<100, 100>>
  /\ predictions = << >>
  /\ hose_points = << NoPoint >>
  /\ regrasp_px = NoPoint
  /\ robot_px = NoPoint
  /\ np_random = 0
  /\ seed0 = << >>
  /\ PlanIdle
  /\ calls = 0
  /\ first_result = NoResult

InitTau ==
  /\ mode = "make_tau"
  /\ DemoIdle
  /\ GraphIdle
  /\ NoPlan
  /\ \E d \in TauDens :
       tau_args \in [start : TauStarts, end : TauPoints,
                     waypoints : TauWaypointLists, n : 0..d, d : {d}]
  /\ tau_out = NoTauOut
  /\ hd_args = NoHdArgs /\ hd_out = NoHdOut
  /\ ic_args = NoIcArgs /\ ic_out = NoIcOut

InitHomotopy ==
  /\ mode = "is_homotopy_diff"
  /\ DemoIdle
  /\ GraphIdle
  /\ NoPlan
  /\ tau_args = NoTauArgs /\ tau_out = NoTauOut
  /\ hd_args \in [hose_points : HdHoseSets,
                  place_point : HdPlacePoints,
                  obstacle_centers : HdCenterLists]
  /\ hd_out = NoHdOut
  /\ ic_args = NoIcArgs /\ ic_out = NoIcOut

InitCollision ==
  /\ mode = "is_in_collision"
  /\ DemoIdle
  /\ GraphIdle
  /\ NoPlan
  /\ tau_args = NoTauArgs /\ tau_out = NoTauOut
  /\ hd_args = NoHdArgs /\ hd_out = NoHdOut
  /\ ic_args \in [mask : IcMasks, num : IcCoords \X IcCoords, den : {IcDen}]
  /\ ic_out = NoIcOut

Init == InitPlan \/ InitTau \/ InitHomotopy \/ InitCollision

\* ------------------------------------------------------------------------
\* plan
\* ------------------------------------------------------------------------
PlanEnter_start_only ==
  /\ mode = "plan" /\ pc = "idle" /\ calls < MaxCalls
  /\ calls' = calls + 1
  /\ IF Len(obstacle_coms) = 0
     THEN \* line 150: obstacle_coms[:, 0] on an array of shape (0,)
          /\ pc' = "raised"
          /\ UNCHANGED << np_random, random_place_px, rng, i, result, first_result >>
     ELSE LET place == clip(<< regrasp_px[1] + np_random_uniform2(np_random)[1],
                               regrasp_px[2] + np_random_uniform2(np_random)[2] >>,
                            w, h)
          IN  /\ np_random' = np_random_advance2(np_random)
              /\ random_place_px' = place
              /\ IF allclose(regrasp_px, start_px)
                 THEN /\ pc' = "returned"
                      /\ result' = [success |-> FALSE, point |-> place,
                                    obj |-> "random_place_px"]
                      /\ first_result' = IF calls = 0 THEN result' ELSE first_result
                      /\ UNCHANGED << rng, i >>
                 ELSE /\ pc' = "loop"
                      /\ rng' = [stream |-> seed0, pos |-> 0]
                      /\ i' = 0
                      /\ UNCHANGED << result, first_result >>
  /\ UNCHANGED << mode, demo_vars, graph_vars, plan_args, sample_px, drawn, fn_vars >>

PlanEnter_in_place ==
  /\ mode = "plan" /\ pc = "idle" /\ calls < MaxCalls
  /\ calls' = calls + 1
  /\ IF Len(obstacle_coms) = 0
     THEN \* line 150: obstacle_coms[:, 0] on an array of shape (0,)
          /\ pc' = "raised"
          /\ UNCHANGED << np_random, random_place_px, rng, i, result, first_result,
                          regrasp_px >>
     ELSE LET place == clip(<< regrasp_px[1] + np_random_uniform2(np_random)[1],
                               regrasp_px[2] + np_random_uniform2(np_random)[2] >>,
                            w, h)
          IN  /\ np_random' = np_random_advance2(np_random)
              /\ random_place_px' = place
              /\ regrasp_px' = place
              /\ IF allclose(regrasp_px, start_px) \/ allclose(regrasp_px, end_px)
                 THEN /\ pc' = "returned"
                      /\ result' = [success |-> FALSE, point |-> place,
                                    obj |-> "regrasp_px"]
                      /\ first_result' = IF calls = 0 THEN result' ELSE first_result
                      /\ UNCHANGED << rng, i >>
                 ELSE /\ pc' = "loop"
                      /\ rng' = [stream |-> seed0, pos |-> 0]
                      /\ i' = 0
                      /\ UNCHANGED << result, first_result >>
  /\ UNCHANGED << mode, demo_vars, graph_vars, rgb_shape, predictions, hose_points, robot_px, seed0,
                  sample_px, drawn, fn_vars >>

\* lines 126-165: everything before the search loop
PlanEnter ==
  /\ mode = "plan" /\ pc = "idle" /\ calls < MaxCalls
  /\ calls' = calls + 1
  /\ IF Len(obstacle_coms) = 0
     THEN \* line 150: obstacle_coms[:, 0] on an array of shape (0,)
          /\ pc' = "raised"
          /\ UNCHANGED << np_random, random_place_px, rng, i, result, first_result >>
     ELSE LET place == clip(<< regrasp_px[1] + np_random_uniform2(np_random)[1],
                               regrasp_px[2] + np_random_uniform2(np_random)[2] >>,
                            w, h)
          IN  /\ np_random' = np_random_advance2(np_random)
              /\ random_place_px' = place
              /\ IF allclose(regrasp_px, start_px) \/ allclose(regrasp_px, end_px)
                 THEN /\ pc' = "returned"
                      /\ result' = [success |-> FALSE, point |-> place,
                                    obj |-> "random_place_px"]
                      /\ first_result' = IF calls = 0 THEN result' ELSE first_result
                      /\ UNCHANGED << rng, i >>
                 ELSE /\ pc' = "loop"
                      /\ rng' = [stream |-> seed0, pos |-> 0]
                      /\ i' = 0
                      /\ UNCHANGED << result, first_result >>
  /\ UNCHANGED << mode, demo_vars, graph_vars, plan_args, sample_px, drawn, fn_vars >>

PlanIter_skip_first ==
  /\ mode = "plan" /\ pc = "loop" /\ i < Budget
  /\ LET sp == sample_point(rng, h, w, extend_px)
         sample == sp.sample_px
     IN  /\ rng' = sp.rng
         /\ sample_px' = sample
         /\ drawn' = drawn + 1
         /\ IF i > 0 /\
               all_of(<< homotopy_diff(sample), ~ in_collision(sample),
                         near_start(sample), near_end(sample),
                         reachable(sample) >>)
            THEN /\ pc' = "returned"
                 /\ result' = [success |-> TRUE, point |-> sample,
                               obj |-> "sample_px"]
                 /\ first_result' = IF calls = 1 THEN result' ELSE first_result
                 /\ i' = i
            ELSE /\ i' = i + 1
                 /\ UNCHANGED << pc, result, first_result >>
  /\ UNCHANGED << mode, demo_vars, graph_vars, plan_args, np_random, random_place_px, calls, fn_vars >>

\* lines 166-182: one iteration of the search loop
PlanIter ==
  /\ mode = "plan" /\ pc = "loop" /\ i < Budget
  /\ LET sp == sample_point(rng, h, w, extend_px)
         sample == sp.sample_px
     IN  /\ rng' = sp.rng
         /\ sample_px' = sample
         /\ drawn' = drawn + 1
         /\ IF all_of(<< homotopy_diff(sample), ~ in_collision(sample),
                         near_start(sample), near_end(sample),
                         reachable(sample) >>)
            THEN /\ pc' = "returned"
                 /\ result' = [success |-> TRUE, point |-> sample,
                               obj |-> "sample_px"]
                 /\ first_result' = IF calls = 1 THEN result' ELSE first_result
                 /\ i' = i
            ELSE /\ i' = i + 1
                 /\ UNCHANGED << pc, result, first_result >>
  /\ UNCHANGED << mode, demo_vars, graph_vars, plan_args, np_random, random_place_px, calls, fn_vars >>

PlanExhausted_redraw ==
  /\ mode = "plan" /\ pc = "loop" /\ i = Budget
  /\ pc' = "returned"
  /\ np_random' = np_random_advance2(np_random)
  /\ random_place_px' =
       clip(<< regrasp_px[1] + np_random_uniform2(np_random)[1],
               regrasp_px[2] + np_random_uniform2(np_random)[2] >>, w, h)
  /\ result' = [success |-> FALSE, point |-> random_place_px',
                obj |-> "random_place_px"]
  /\ first_result' = IF calls = 1 THEN result' ELSE first_result
  /\ UNCHANGED << mode, demo_vars, graph_vars, plan_args, rng, i, sample_px, drawn, calls, fn_vars >>

\* lines 184-189: the loop ran out
PlanExhausted ==
  /\ mode = "plan" /\ pc = "loop" /\ i = Budget
  /\ pc' = "returned"
  /\ result' = [success |-> FALSE, point |-> random_place_px,
                obj |-> "random_place_px"]
  /\ first_result' = IF calls = 1 THEN result' ELSE first_result
  /\ UNCHANGED << mode, demo_vars, graph_vars, plan_args, np_random, rng, i, random_place_px,
                  sample_px, drawn, calls, fn_vars >>

\* the caller calls plan again with the same arguments
CallAgain ==
  /\ mode = "plan" /\ pc \in {"returned", "raised"} /\ calls < MaxCalls
  /\ pc' = "idle" /\ i' = 0 /\ rng' = NoRng /\ random_place_px' = NoPoint
  /\ sample_px' = NoPoint
  /\ drawn' = 0 /\ result' = NoResult
  /\ UNCHANGED << mode, demo_vars, graph_vars, plan_args, np_random, calls, first_result, fn_vars >>

\* ------------------------------------------------------------------------
\* The functions called on their own
\* ------------------------------------------------------------------------
CallTau ==
  /\ mode = "make_tau" /\ ~ tau_out.called
  /\ LET r == make_tau(tau_args.start, tau_args.end, tau_args.waypoints,
                       tau_args.n, tau_args.d)
     IN  tau_out' = [called |-> TRUE, raised |-> r.raised, z |-> r.z]
  /\ UNCHANGED << mode, demo_vars, graph_vars, plan_args, np_random, pc, i, rng, random_place_px,
                  sample_px, drawn, result, calls, first_result, tau_args,
                  hd_args, hd_out, ic_args, ic_out >>

CallHomotopyDiff ==
  /\ mode = "is_homotopy_diff" /\ ~ hd_out.called
  /\ hd_out' = [called |-> TRUE,
                value |-> is_homotopy_diff(hd_args.hose_points,
                            hd_args.hose_points[1],
                            hd_args.hose_points[Len(hd_args.hose_points)],
                            hd_args.place_point, hd_args.obstacle_centers),
                sweep |-> IF hd_args.obstacle_centers = << >> THEN << >>
                          ELSE sweep_points(hd_args.hose_points,
                                 hd_args.hose_points[1],
                                 hd_args.hose_points[Len(hd_args.hose_points)],
                                 hd_args.place_point)]
  /\ UNCHANGED << mode, demo_vars, graph_vars, plan_args, np_random, pc, i, rng, random_place_px,
                  sample_px, drawn, result, calls, first_result, tau_args,
                  tau_out, hd_args, ic_args, ic_out >>

CallIsInCollision ==
  /\ mode = "is_in_collision" /\ ~ ic_out.called
  /\ LET r == collision_lookup(ic_args.mask, ic_args.num, ic_args.den)
     IN  ic_out' = [called |-> TRUE, indexed |-> r.indexed, row |-> r.row,
                    col |-> r.col, raised |-> r.raised, value |-> r.value]
  /\ UNCHANGED << mode, demo_vars, graph_vars, plan_args, np_random, pc, i, rng, random_place_px,
                  sample_px, drawn, result, calls, first_result, tau_args,
                  tau_out, hd_args, hd_out, ic_args >>

Next ==
  \/ PlanEnter
  \/ PlanIter
  \/ PlanExhausted
  \/ CallAgain
  \/ CallTau
  \/ CallHomotopyDiff
  \/ CallIsInCollision

Spec == Init /\ [][Next]_vars

TypeOK ==
  /\ mode \in {"plan", "make_tau", "is_homotopy_diff", "is_in_collision"}
  /\ pc \in {"idle", "loop", "returned", "raised"}
  /\ i \in 0..Budget
  /\ calls \in 0..MaxCalls
  /\ np_random \in 0..(UnitDen - 1)
  /\ result.success \in BOOLEAN

\* ------------------------------------------------------------------------
\* The demo script, scripts/continuous_regrasping_hose_demo.py
\* ------------------------------------------------------------------------
\* Each function is run on its own (mode names it); the calls it makes into
\* the robot SDK and the detectors are steps of the environment: a detector
\* returns or raises DetectionError, a raycast hits or not, a grasp succeeds
\* or not.  cmds records the commands the function sends to the robot.
SpiralSteps == 35
PreSpiralSteps == 23
GraspTries == 8
\* 5.0 m, in decimetres
MaxGoalDist == 50
GoalSet == { <<0, 0>>, <<30, 40>>, <<30, 41>>, <<-60, 0>> }

\* the planner is not running
PlannerIdle ==
  /\ NoPlan
  /\ tau_args = NoTauArgs /\ tau_out = NoTauOut
  /\ hd_args = NoHdArgs /\ hd_out = NoHdOut
  /\ ic_args = NoIcArgs /\ ic_out = NoIcOut

DemoStart(m, at) ==
  /\ mode = m /\ dpc = at
  /\ attempts = 0 /\ spiral = 0 /\ cmds = << >> /\ last = "none"
  /\ feedback = NoFeedback /\ goal_in_odom = <<0, 0>> /\ goal_reached = FALSE

DemoInit ==
  /\ PlannerIdle
  /\ GraphIdle
  /\ \/ DemoStart("get_point_f_retry", "look")
     \/ DemoStart("retry_do_grasp", "attempt")
     \/ DemoStart("drag_rope_to_goal", "start")
     \/ DemoStart("go_to_goal", "walk_to")
     \/ DemoStart("main", "find_goal")

\* --- get_point_f_retry, lines 85-98 --------------------------------------
\* line 87
GpfLook ==
  /\ mode = "get_point_f_retry" /\ dpc = "look"
  /\ cmds' = Append(cmds, "look_at_scene")
  /\ dpc' = "pre_spiral"
  /\ UNCHANGED << mode, planner_vars, graph_vars, attempts, spiral, last, feedback,
                  goal_in_odom, goal_reached >>

\* lines 88-90: one step of the loop over spiral_search(spiral_steps=23).
\* The generator runs its raycast when its first item is asked for.
GpfPreSpiral ==
  /\ mode = "get_point_f_retry" /\ dpc = "pre_spiral"
  /\ \E hit \in BOOLEAN :
       IF spiral = 0 /\ ~ hit
       THEN /\ dpc' = "raised" /\ last' = "DetectionError"
            /\ UNCHANGED spiral
       ELSE IF spiral < PreSpiralSteps
       THEN /\ spiral' = spiral + 1
            /\ UNCHANGED << dpc, last >>
       ELSE \* the generator is exhausted; line 91 makes a new one
            /\ spiral' = 0 /\ dpc' = "attempt"
            /\ UNCHANGED last
  /\ UNCHANGED << mode, planner_vars, graph_vars, attempts, cmds, feedback, goal_in_odom,
                  goal_reached >>

\* lines 93-95: one call of get_point_f
GpfAttempt ==
  /\ mode = "get_point_f_retry" /\ dpc = "attempt"
  /\ attempts' = attempts + 1
  /\ \E found \in BOOLEAN :
       IF found THEN dpc' = "returned" /\ last' = "result"
       ELSE dpc' = "gaze" /\ last' = "DetectionError"
  /\ UNCHANGED << mode, planner_vars, graph_vars, spiral, cmds, feedback, goal_in_odom,
                  goal_reached >>

GpfGaze_restart ==
  /\ mode = "get_point_f_retry" /\ dpc = "gaze"
  /\ \E hit \in BOOLEAN :
       IF spiral = 0 /\ ~ hit
       THEN /\ dpc' = "raised" /\ last' = "DetectionError"
            /\ UNCHANGED << spiral, cmds >>
       ELSE /\ spiral' = IF spiral < SpiralSteps THEN spiral + 1 ELSE 1
            /\ cmds' = Append(cmds, "gaze")
            /\ dpc' = "attempt"
            /\ UNCHANGED last
  /\ UNCHANGED << mode, planner_vars, graph_vars, attempts, feedback, goal_in_odom,
                  goal_reached >>

\* lines 96-98: next(spiral_gen) and the gaze command
GpfGaze ==
  /\ mode = "get_point_f_retry" /\ dpc = "gaze"
  /\ \E hit \in BOOLEAN :
       IF spiral = 0 /\ ~ hit
       THEN /\ dpc' = "raised" /\ last' = "DetectionError"
            /\ UNCHANGED << spiral, cmds >>
       ELSE IF spiral < SpiralSteps
       THEN /\ spiral' = spiral + 1
            /\ cmds' = Append(cmds, "gaze")
            /\ dpc' = "attempt"
            /\ UNCHANGED last
       ELSE \* next() on the exhausted generator
            /\ dpc' = "raised" /\ last' = "StopIteration"
            /\ UNCHANGED << spiral, cmds >>
  /\ UNCHANGED << mode, planner_vars, graph_vars, attempts, feedback, goal_in_odom,
                  goal_reached >>

\* --- retry_do_grasp, lines 293-329 ---------------------------------------
RdgAttempt_detection_raises ==
  /\ mode = "retry_do_grasp" /\ dpc = "attempt" /\ attempts < GraspTries
  /\ attempts' = attempts + 1
  /\ \E outcome \in {"success", "grasp_failed", "DetectionError"} :
       /\ last' = outcome
       /\ dpc' = IF outcome = "success" THEN "returned"
                 ELSE IF outcome = "DetectionError" THEN "raised" ELSE "velocity"
  /\ UNCHANGED << mode, planner_vars, graph_vars, spiral, cmds, feedback, goal_in_odom,
                  goal_reached >>

\* lines 295-303: one attempt; get_point_f or do_grasp may raise
\* DetectionError
RdgAttempt ==
  /\ mode = "retry_do_grasp" /\ dpc = "attempt" /\ attempts < GraspTries
  /\ attempts' = attempts + 1
  /\ \E outcome \in {"success", "grasp_failed", "DetectionError"} :
       /\ last' = outcome
       /\ dpc' = IF outcome = "success" THEN "returned" ELSE "velocity"
  /\ UNCHANGED << mode, planner_vars, graph_vars, spiral, cmds, feedback, goal_in_odom,
                  goal_reached >>

\* lines 305-324: the arm velocity command
RdgVelocity ==
  /\ mode = "retry_do_grasp" /\ dpc = "velocity"
  /\ cmds' = Append(cmds, "arm_velocity")
  /\ dpc' = "stop"
  /\ UNCHANGED << mode, planner_vars, graph_vars, attempts, spiral, last, feedback,
                  goal_in_odom, goal_reached >>

\* lines 325-326
RdgStop ==
  /\ mode = "retry_do_grasp" /\ dpc = "stop"
  /\ cmds' = Append(cmds, "stop")
  /\ dpc' = "attempt"
  /\ UNCHANGED << mode, planner_vars, graph_vars, attempts, spiral, last, feedback,
                  goal_in_odom, goal_reached >>

\* lines 328-329: the loop ran out
RdgGiveUp ==
  /\ mode = "retry_do_grasp" /\ dpc = "attempt" /\ attempts = GraspTries
  /\ cmds' = Append(cmds, "open_gripper")
  /\ dpc' = "raised" /\ last' = "GraspingException"
  /\ UNCHANGED << mode, planner_vars, graph_vars, attempts, spiral, feedback, goal_in_odom,
                  goal_reached >>

\* --- drag_rope_to_goal, lines 163-189 ------------------------------------
\* lines 165-171
DragStart ==
  /\ mode = "drag_rope_to_goal" /\ dpc = "start"
  /\ cmds' = cmds \o << "raise_hand", "walk_crawl" >>
  /\ dpc' = "poll"
  /\ UNCHANGED << mode, planner_vars, graph_vars, attempts, spiral, last, feedback,
                  goal_in_odom, goal_reached >>

DragPoll_goal_first ==
  /\ mode = "drag_rope_to_goal" /\ dpc = "poll"
  /\ \E fb \in [status : {"PROCESSING", "OTHER"}, at_goal : BOOLEAN,
               high_force : BOOLEAN] :
       /\ feedback' = fb
       /\ IF fb.at_goal
          THEN dpc' = "returned" /\ goal_reached' = TRUE
          ELSE IF fb.status # "PROCESSING"
          THEN dpc' = "returned" /\ goal_reached' = FALSE
          ELSE IF fb.high_force
          THEN dpc' = "returned" /\ goal_reached' = FALSE
          ELSE UNCHANGED << dpc, goal_reached >>
  /\ UNCHANGED << mode, planner_vars, graph_vars, attempts, spiral, cmds, last,
                  goal_in_odom >>

\* lines 174-189: one feedback poll.  at_goal stands for STATUS_AT_GOAL with
\* BODY_STATUS_SETTLED, high_force for the answer of force_measure.
DragPoll ==
  /\ mode = "drag_rope_to_goal" /\ dpc = "poll"
  /\ \E fb \in [status : {"PROCESSING", "OTHER"}, at_goal : BOOLEAN,
               high_force : BOOLEAN] :
       /\ feedback' = fb
       /\ IF fb.status # "PROCESSING"
          THEN dpc' = "returned" /\ goal_reached' = FALSE
          ELSE IF fb.at_goal
          THEN dpc' = "returned" /\ goal_reached' = TRUE
          ELSE IF fb.high_force
          THEN dpc' = "returned" /\ goal_reached' = FALSE
          ELSE UNCHANGED << dpc, goal_reached >>
  /\ UNCHANGED << mode, planner_vars, graph_vars, attempts, spiral, cmds, last,
                  goal_in_odom >>

\* --- go_to_goal, lines 367-481 --------------------------------------------
\* A callee that can raise either returns or ends go_to_goal with its
\* exception.
\* line 372: walk_to
GoWalkTo ==
  /\ mode = "go_to_goal" /\ dpc = "walk_to"
  /\ \E ok \in BOOLEAN :
       IF ok THEN /\ cmds' = Append(cmds, "walk_to") /\ dpc' = "align"
                  /\ UNCHANGED last
       ELSE /\ dpc' = "raised" /\ last' = "DetectionError"
            /\ UNCHANGED cmds
  /\ UNCHANGED << mode, planner_vars, graph_vars, attempts, spiral, feedback, goal_in_odom,
                  goal_reached >>

\* line 373: align_with_hose
GoAlign ==
  /\ mode = "go_to_goal" /\ dpc = "align"
  /\ \E ok \in BOOLEAN :
       IF ok THEN /\ cmds' = Append(cmds, "align_with_hose") /\ dpc' = "grasp"
                  /\ UNCHANGED last
       ELSE /\ dpc' = "raised" /\ last' = "DetectionError"
            /\ UNCHANGED cmds
  /\ UNCHANGED << mode, planner_vars, graph_vars, attempts, spiral, feedback, goal_in_odom,
                  goal_reached >>

\* line 374: retry_do_grasp
GoGrasp ==
  /\ mode = "go_to_goal" /\ dpc = "grasp"
  /\ \E ok \in BOOLEAN :
       IF ok THEN /\ cmds' = Append(cmds, "grasp") /\ dpc' = "drag"
                  /\ UNCHANGED last
       ELSE /\ cmds' = Append(cmds, "open_gripper")
            /\ dpc' = "raised" /\ last' = "GraspingException"
  /\ UNCHANGED << mode, planner_vars, graph_vars, attempts, spiral, feedback, goal_in_odom,
                  goal_reached >>

\* lines 377-379: the drag and the break
GoDrag ==
  /\ mode = "go_to_goal" /\ dpc = "drag"
  /\ cmds' = Append(cmds, "drag")
  /\ \E reached \in BOOLEAN :
       /\ goal_reached' = reached
       /\ dpc' = IF reached THEN "returned" ELSE "look_for_hose"
  /\ UNCHANGED << mode, planner_vars, graph_vars, attempts, spiral, last, feedback,
                  goal_in_odom >>

\* lines 382-386: open the gripper, look down, make the spiral generator
GoLookForHose ==
  /\ mode = "go_to_goal" /\ dpc = "look_for_hose"
  /\ cmds' = cmds \o << "open_gripper", "look_at_scene" >>
  /\ spiral' = 0
  /\ dpc' = "spiral"
  /\ UNCHANGED << mode, planner_vars, graph_vars, attempts, last, feedback, goal_in_odom,
                  goal_reached >>

\* lines 387-390: one step of the loop "while True: next(spiral_gen) ...".
\* The loop has no break and no return: it ends only when next() raises,
\* DetectionError from the raycast of the first step or StopIteration on the
\* exhausted generator, and nothing in go_to_goal catches either.  The
\* statements after the loop (lines 405-481, position "regrasp") are never
\* executed.
GoSpiral ==
  /\ mode = "go_to_goal" /\ dpc = "spiral"
  /\ \E hit \in BOOLEAN :
       IF spiral = 0 /\ ~ hit
       THEN /\ dpc' = "raised" /\ last' = "DetectionError"
            /\ UNCHANGED << spiral, cmds >>
       ELSE IF spiral < SpiralSteps
       THEN /\ spiral' = spiral + 1
            /\ cmds' = Append(cmds, "gaze")
            /\ UNCHANGED << dpc, last >>
       ELSE /\ dpc' = "raised" /\ last' = "StopIteration"
            /\ UNCHANGED << spiral, cmds >>
  /\ UNCHANGED << mode, planner_vars, graph_vars, attempts, feedback, goal_in_odom,
                  goal_reached >>

\* --- main, lines 559-579 ---------------------------------------------------
\* line 561: find_goal returns a goal or raises; cmds restarts with each
\* goal
MainFindGoal ==
  /\ mode = "main" /\ dpc = "find_goal"
  /\ \/ /\ \E g \in GoalSet : goal_in_odom' = g
        /\ cmds' = << "find_goal" >>
        /\ dpc' = "check"
        /\ UNCHANGED last
     \/ /\ dpc' = "raised" /\ last' = "DetectionError"
        /\ UNCHANGED << goal_in_odom, cmds >>
  /\ UNCHANGED << mode, planner_vars, graph_vars, attempts, spiral, feedback, goal_reached >>

MainCheck_no_continue ==
  /\ mode = "main" /\ dpc = "check"
  /\ dpc' = "go_to_goal"
  /\ UNCHANGED << mode, planner_vars, graph_vars, attempts, spiral, cmds, last, feedback,
                  goal_in_odom, goal_reached >>

\* lines 565-567: np.linalg.norm([goal.x, goal.y]) > 5.0, on squares
MainCheck ==
  /\ mode = "main" /\ dpc = "check"
  /\ dpc' = IF NormSq(goal_in_odom, <<0, 0>>) > MaxGoalDist * MaxGoalDist
            THEN "find_goal" ELSE "go_to_goal"
  /\ UNCHANGED << mode, planner_vars, graph_vars, attempts, spiral, cmds, last, feedback,
                  goal_in_odom, goal_reached >>

\* lines 569-572: go_to_goal returns or raises
MainGoToGoal ==
  /\ mode = "main" /\ dpc = "go_to_goal"
  /\ cmds' = Append(cmds, "go_to_goal")
  /\ \E ok \in BOOLEAN :
       IF ok THEN dpc' = "finish" /\ UNCHANGED last
       ELSE dpc' = "raised" /\ last' = "exception"
  /\ UNCHANGED << mode, planner_vars, graph_vars, attempts, spiral, feedback, goal_in_odom,
                  goal_reached >>

\* lines 574-578
MainFinish ==
  /\ mode = "main" /\ dpc = "finish"
  /\ cmds' = cmds \o << "open_gripper", "arm_stow", "walk_home" >>
  /\ dpc' = "find_goal"
  /\ UNCHANGED << mode, planner_vars, graph_vars, attempts, spiral, last, feedback,
                  goal_in_odom, goal_reached >>

DemoNext ==
  \/ GpfLook
  \/ GpfPreSpiral
  \/ GpfAttempt
  \/ GpfGaze
  \/ RdgAttempt
  \/ RdgVelocity
  \/ RdgStop
  \/ RdgGiveUp
  \/ DragStart
  \/ DragPoll
  \/ GoWalkTo
  \/ GoAlign
  \/ GoGrasp
  \/ GoDrag
  \/ GoLookForHose
  \/ GoSpiral
  \/ MainFindGoal
  \/ MainCheck
  \/ MainGoToGoal
  \/ MainFinish

DemoSpec == DemoInit /\ [][DemoNext]_vars

\* the script is one sequential process: a step that can be taken is taken
DemoFairSpec == DemoSpec /\ WF_vars(DemoNext)

\* ------------------------------------------------------------------------
\* BosdynVTKInterface.create_graph_objects, clickmap_nav/clickmap_nav.py
\* ------------------------------------------------------------------------
\* A map is the graph the loader read (SpotMap.__init__, lines 61-118): its
\* waypoints, in order, its edges, and the snapshots that were found on
\* disk.  Waypoint ids are 1..n; self.map.waypoints holds every waypoint of
\* the graph and the edges join waypoints of the graph.  The pose of a
\* waypoint is kept as its offset along one axis; every edge transform is a
\* translation by one unit, its inverse by minus one.
MaxGraphWaypoints == 3
MaxGraphEdges == 2
MaxFiducials == 1
EdgeTform == 1

WaypointIds(n) == 1..n
EdgeLists(n) ==
  UNION { [1..k -> WaypointIds(n) \X WaypointIds(n)] : k \in 0..MaxGraphEdges }
Graphs ==
  UNION { { [waypoints |-> [k \in 1..n |-> k], edges |-> es] :
              es \in EdgeLists(n) } : n \in 0..MaxGraphWaypoints }

ClickmapInit ==
  /\ PlannerIdle
  /\ DemoIdle
  /\ mode = "create_graph_objects"
  /\ graph \in Graphs
  /\ snapshots \in SUBSET WaypointIds(Len(graph.waypoints))
  /\ gpc = "start" /\ queue = << >> /\ visited = {} /\ actors = << >>
  /\ avg_pos = 0 /\ avg_result = <<0, 1>>

\* lines 496-514: the pass over the edges made while visiting curr at pose;
\* vis is the visited set, which the pass does not change.  acc holds the
\* queue, the actors and avg_pos.
RECURSIVE scan_edges(_, _, _, _, _, _)
scan_edges(edges, k, curr, pose, vis, acc) ==
  IF k > Len(edges) THEN acc
  ELSE
    LET from_waypoint == edges[k][1]
        to_waypoint == edges[k][2]
        step(nbr, world_tform) ==
          [queue |-> Append(acc.queue, <<nbr, world_tform>>),
           actors |-> Append(acc.actors, <<"line", curr>>),
           avg_pos |-> acc.avg_pos + world_tform]
    IN  IF from_waypoint = curr /\ to_waypoint \notin vis
          THEN scan_edges(edges, k + 1, curr, pose, vis,
                          step(to_waypoint, pose + EdgeTform))
        ELSE IF to_waypoint = curr /\ from_waypoint \notin vis
          THEN scan_edges(edges, k + 1, curr, pose, vis,
                          step(from_waypoint, pose - EdgeTform))
        ELSE scan_edges(edges, k + 1, curr, pose, vis, acc)

\* lines 483-493: the actors of the apriltag fiducials of a snapshot
fiducial_actors(id, n) ==
  [k \in 1..(2 * n) |-> IF k % 2 = 1 THEN <<"fiducial", id>> ELSE <<"text", id>>]

\* lines 294-324, create_waypoint_actors: the point cloud of the waypoint's
\* snapshot and a sphere
create_waypoint_actors(id) == << <<"point_cloud", id>>, <<"sphere", id>> >>

\* lines 457-461: the queue starts with the first waypoint at the origin;
\* current_graph.waypoints[0] raises IndexError on a graph with no waypoint
BfsStart ==
  /\ mode = "create_graph_objects" /\ gpc = "start"
  /\ IF Len(graph.waypoints) = 0
       THEN gpc' = "raised" /\ UNCHANGED queue
       ELSE gpc' = "loop" /\ queue' = << <<graph.waypoints[1], 0>> >>
  /\ UNCHANGED << mode, planner_vars, demo_vars, graph, snapshots, visited,
                  actors, avg_pos, avg_result >>

\* lines 464-469: a popped waypoint that was visited before is dropped
BfsSkip ==
  /\ mode = "create_graph_objects" /\ gpc = "loop"
  /\ Len(queue) > 0
  /\ Head(queue)[1] \in visited
  /\ queue' = Tail(queue)
  /\ UNCHANGED << mode, planner_vars, demo_vars, graph, snapshots, gpc,
                  visited, actors, avg_pos, avg_result >>

\* lines 464-514: a waypoint is visited: it is marked, its actors and its
\* label are made (create_point_cloud_object, line 259, raises KeyError for
\* a waypoint whose snapshot was not loaded), then the actors of the
\* fiducials of its snapshot, then its edges are followed
BfsVisit ==
  /\ mode = "create_graph_objects" /\ gpc = "loop"
  /\ Len(queue) > 0
  /\ Head(queue)[1] \notin visited
  /\ LET curr == Head(queue)[1]
         pose == Head(queue)[2]
     IN  /\ visited' = visited \cup {curr}
         /\ IF curr \notin snapshots
              THEN /\ gpc' = "raised"
                   /\ queue' = Tail(queue)
                   /\ UNCHANGED << actors, avg_pos >>
              ELSE \E n \in 0..MaxFiducials :
                     LET acc == scan_edges(graph.edges, 1, curr, pose,
                                  visited \cup {curr},
                                  [queue |-> Tail(queue),
                                   actors |-> actors
                                                \o create_waypoint_actors(curr)
                                                \o << <<"text", curr>> >>
                                                \o fiducial_actors(curr, n),
                                   avg_pos |-> avg_pos])
                     IN  /\ queue' = acc.queue
                         /\ actors' = acc.actors
                         /\ avg_pos' = acc.avg_pos
                         /\ UNCHANGED gpc
  /\ UNCHANGED << mode, planner_vars, demo_vars, graph, snapshots, avg_result >>

\* lines 464, 516-518: the queue is empty; avg_pos / len(current_waypoints)
\* is returned, kept as numerator and denominator
BfsReturn ==
  /\ mode = "create_graph_objects" /\ gpc = "loop"
  /\ Len(queue) = 0
  /\ gpc' = "returned"
  /\ avg_result' = <<avg_pos, Len(graph.waypoints)>>
  /\ UNCHANGED << mode, planner_vars, demo_vars, graph, snapshots, queue,
                  visited, actors, avg_pos >>

ClickmapNext ==
  \/ BfsStart
  \/ BfsSkip
  \/ BfsVisit
  \/ BfsReturn

ClickmapSpec == ClickmapInit /\ [][ClickmapNext]_vars

\* ------------------------------------------------------------------------
\* Properties
\* ------------------------------------------------------------------------
Returned == mode = "plan" /\ pc = "returned"
Terminated == mode = "plan" /\ pc \in {"returned", "raised"}
Degenerate == allclose(regrasp_px, start_px) \/ allclose(regrasp_px, end_px)

\* the j-th sample (j = 0, 1, ...) of the sequence RandomState(0) gives for
\* this frame: values 2j+1 and 2j+2 of the stream, x first
SeededSample(j) ==
  << Uniform(seed0[2 * j + 1], -extend_px, w + extend_px),
     Uniform(seed0[2 * j + 2], -extend_px, h + extend_px) >>

\* the five predicates of the spec, each evaluated on its own
PassesAll(s) ==
  /\ homotopy_diff(s)
  /\ ~ in_collision(s)
  /\ reachable(s)
  /\ near_start(s)
  /\ near_end(s)

\* C1: a point returned with success = true satisfies all five predicates:
\* homotopy difference, no collision with the inflated mask, within reach of
\* the robot, and near-start and near-end deviation below near_tol.
C1_AcceptedPointPassesAll ==
  (Returned /\ result.success) => PassesAll(result.point)

C1_Witness == Returned /\ result.success /\ calls = 1

\* C2: first acceptance.  A call that returns success = true at iteration i
\* returns sample i of the seeded sequence, no sample j < i passes all five
\* predicates, and nothing is drawn after sample i.
C2_FirstAcceptance ==
  (Returned /\ result.success) =>
     /\ result.point = SeededSample(i)
     /\ PassesAll(SeededSample(i))
     /\ \A j \in 0..(i - 1) : ~ PassesAll(SeededSample(j))
     /\ drawn = i + 1
     /\ rng.pos = 2 * (i + 1)

C2_Witness ==
  /\ Returned /\ result.success /\ i >= 1
  /\ result.point # SeededSample(0)

NoSamplePasses == \A j \in 0..(Budget - 1) : ~ PassesAll(SeededSample(j))

\* C3: in the non-degenerate case plan returns success = false if and only
\* if no sample of the seeded sequence passes all five predicates, and the
\* point it then returns is the fallback point.
C3_FailureIffNoSamplePasses ==
  (Terminated /\ ~ Degenerate) =>
     /\ (Returned /\ ~ result.success) <=> NoSamplePasses
     /\ (Returned /\ ~ result.success) => result.point = random_place_px

\* C4: plan is total: it never raises, also with zero obstacle regions.
C4_PlanNeverRaises == mode = "plan" => pc # "raised"

\* C5: determinism: a later call of plan with the same arguments returns
\* the same (success, point) pair as the first call.
C5_SameResultEveryCall ==
  (Returned /\ calls >= 2) => result = first_result

\* C6: degenerate short-circuit: with the regrasp point on the start or the
\* end of the polyline, plan returns success = false with the fallback
\* point and draws no sample.
C6_DegenerateReturnsFallback ==
  (Terminated /\ Degenerate) =>
     /\ pc = "returned"
     /\ ~ result.success
     /\ result.point = random_place_px
     /\ drawn = 0
     /\ rng = NoRng

\* C7: fallback containment: a point returned with success = false lies in
\* [0, w] x [0, h].
C7_FallbackInFrame ==
  (Returned /\ ~ result.success) =>
     /\ 0 <= result.point[1] /\ result.point[1] <= w
     /\ 0 <= result.point[2] /\ result.point[2] <= h

C7_Witness ==
  /\ Returned /\ ~ result.success
  /\ regrasp_px = <<130, -20>>
  /\ regrasp_px[1] + np_random_uniform2((np_random + UnitDen - 2) % UnitDen)[1] > w
  /\ result.point[1] = w

\* C8: the search loop draws one sample per iteration and at most Budget
\* samples, and it has no other retry: every step of a call inside the loop
\* either rejects one more sample (i and drawn go up by one) or returns, i
\* never passes Budget, and the loop ends at the first accepted sample or
\* after the last rejection.
C8_LoopBounds ==
  mode = "plan" =>
     /\ drawn <= Budget /\ i <= Budget
     /\ rng.pos = 2 * drawn
     /\ pc = "loop" => drawn = i
     /\ (Returned /\ result.success) => drawn = i + 1
     /\ (Returned /\ ~ result.success /\ ~ Degenerate) => (drawn = Budget /\ i = Budget)

C8_LoopStep ==
  (mode = "plan" /\ pc = "loop") =>
     \/ pc' = "loop" /\ i' = i + 1 /\ drawn' = drawn + 1
     \/ pc' = "returned" /\ result'.success /\ drawn' = drawn + 1
     \/ pc' = "returned" /\ ~ result'.success /\ drawn' = drawn /\ i = Budget

C8_BoundedSearchTerminates == [] C8_LoopBounds /\ [][C8_LoopStep]_vars

C8_Witness == Returned /\ ~ result.success /\ drawn = Budget /\ calls = 2

\* C9: endpoint exactness: the path returns start at t = 0 and end at
\* t = 1, for every waypoint list, the empty one included.
C9_EndpointExactness ==
  (mode = "make_tau" /\ tau_out.called) =>
     /\ tau_args.n = 0 =>
          (~ tau_out.raised /\
           tau_out.z = << tau_args.d * tau_args.start[1], tau_args.d * tau_args.start[2] >>)
     /\ tau_args.n = tau_args.d =>
          (~ tau_out.raised /\
           tau_out.z = << tau_args.d * tau_args.end[1], tau_args.d * tau_args.end[2] >>)

C9_Witness ==
  /\ mode = "make_tau" /\ tau_out.called
  /\ tau_args.n = tau_args.d /\ tau_args.waypoints = << >>
  /\ tau_args.start # tau_args.end

\* C10: with no obstacle centre is_homotopy_diff returns false, and plan
\* never returns success = true.
C10_NoObstacleNoDifference ==
  /\ (mode = "is_homotopy_diff" /\ hd_out.called /\ hd_args.obstacle_centers = << >>)
        => ~ hd_out.value
  /\ (mode = "plan" /\ Len(obstacle_coms) = 0) => ~ (pc = "returned" /\ result.success)

C10_Witness ==
  /\ mode = "is_homotopy_diff" /\ hd_out.called
  /\ hd_args.obstacle_centers = << >>
  /\ Len(hd_args.hose_points) = 3

\* ------------------------------------------------------------------------
\* is_homotopy_diff called on its own
\* ------------------------------------------------------------------------
HdStart == hd_args.hose_points[1]
HdEnd == hd_args.hose_points[Len(hd_args.hose_points)]
LastStep == SweepSpan * StepsPerUnit - 1

\* the whole number of turns the accumulated angle of obstacle j rounds to
HdTurns(j) ==
  RoundTurns(integral_angle(hd_args.hose_points, HdStart, HdEnd,
                            hd_args.place_point, hd_args.obstacle_centers[j],
                            LastStep))

\* C11: is_homotopy_diff returns true exactly when at least one obstacle
\* centre has a rounded winding number different from zero, of either sign;
\* when every centre rounds to zero it returns false.
C11_DifferentIffSomeNonzeroWinding ==
  hd_out.called =>
    (hd_out.value <=> \E j \in DOMAIN hd_args.obstacle_centers : HdTurns(j) # 0)

\* a call that answers true although no centre has a positive winding
C11_Witness ==
  /\ hd_out.called /\ hd_out.value
  /\ Len(hd_args.obstacle_centers) = 2
  /\ \A j \in DOMAIN hd_args.obstacle_centers : HdTurns(j) <= 0
  /\ \E j \in DOMAIN hd_args.obstacle_centers : HdTurns(j) = 0
  /\ \E j \in DOMAIN hd_args.obstacle_centers : HdTurns(j) < 0

\* C13: in the comparator the control points of tau1 are exactly the points
\* of the polyline in order (start, interior points, end), neither anchor
\* repeated, so their number M is the number of polyline points.
C13_Tau1ControlPointsArePolyline ==
  hd_out.called =>
    LET P == all_points_of(HdStart, HdEnd, tau1_waypoints(hd_args.hose_points))
    IN  /\ Len(P) = Len(hd_args.hose_points)
        /\ P = hd_args.hose_points

\* C16: for every centre the points visited by the sweep form a closed
\* loop: the first is start, the point at t = 1 is end, and the last is
\* start again.
C16_SweepIsClosedLoop ==
  (hd_out.called /\ hd_args.obstacle_centers # << >>) =>
    /\ hd_out.sweep[1] = << StepsPerUnit * HdStart[1], StepsPerUnit * HdStart[2] >>
    /\ hd_out.sweep[StepsPerUnit + 1] =
         << StepsPerUnit * HdEnd[1], StepsPerUnit * HdEnd[2] >>
    /\ hd_out.sweep[Len(hd_out.sweep)] =
         << StepsPerUnit * HdStart[1], StepsPerUnit * HdStart[2] >>

\* the angles between consecutive visited points, seen from centre c, for
\* the steps 2..k of the sequence pts
RECURSIVE SumStepAngles(_, _, _)
SumStepAngles(pts, c, k) ==
  IF k <= 1 THEN 0
  ELSE SumStepAngles(pts, c, k - 1)
       + angle_between(
           << pts[k][1] - StepsPerUnit * c[1], pts[k][2] - StepsPerUnit * c[2] >>,
           << pts[k - 1][1] - StepsPerUnit * c[1],
              pts[k - 1][2] - StepsPerUnit * c[2] >>)

\* C16 (amended): the sweep visits SweepSpan * StepsPerUnit points, t = 0,
\* 0.05, ..., 1.95.  The first is start, the point at t = 1 is end, and the
\* last is tau2(0.05) = 0.9 * start + 0.1 * place_point, one step short of
\* start; the accumulated angle is the sum over the steps between visited
\* points and has no term for a closing step back to start.
C16_SweepStopsOneStepShort ==
  (hd_out.called /\ hd_args.obstacle_centers # << >>) =>
    /\ Len(hd_out.sweep) = SweepSpan * StepsPerUnit
    /\ hd_out.sweep[1] = << StepsPerUnit * HdStart[1], StepsPerUnit * HdStart[2] >>
    /\ hd_out.sweep[StepsPerUnit + 1] =
         << StepsPerUnit * HdEnd[1], StepsPerUnit * HdEnd[2] >>
    /\ hd_out.sweep[Len(hd_out.sweep)] =
         << (StepsPerUnit - 2) * HdStart[1] + 2 * hd_args.place_point[1],
            (StepsPerUnit - 2) * HdStart[2] + 2 * hd_args.place_point[2] >>
    /\ \A j \in DOMAIN hd_args.obstacle_centers :
         integral_angle(hd_args.hose_points, HdStart, HdEnd, hd_args.place_point,
                        hd_args.obstacle_centers[j], LastStep)
           = SumStepAngles(hd_out.sweep, hd_args.obstacle_centers[j],
                           Len(hd_out.sweep))

\* a sweep whose last point is not start
C16_Witness ==
  /\ hd_out.called /\ Len(hd_out.sweep) = SweepSpan * StepsPerUnit
  /\ hd_out.sweep[Len(hd_out.sweep)] #
       << StepsPerUnit * HdStart[1], StepsPerUnit * HdStart[2] >>
  /\ Len(hd_args.obstacle_centers) = 2

\* The loop the comparator approximates, as a polygon: the polyline
\* forward, then place_point, closed back to start.
HdLoop == hd_args.hose_points \o << hd_args.place_point >>

\* twice the signed area of the triangle a, b, c
IsLeft(a, b, c) ==
  (b[1] - a[1]) * (c[2] - a[2]) - (c[1] - a[1]) * (b[2] - a[2])

\* c lies on the segment a b
OnSegment(a, b, c) ==
  /\ IsLeft(a, b, c) = 0
  /\ Min(a[1], b[1]) <= c[1] /\ c[1] <= Max(a[1], b[1])
  /\ Min(a[2], b[2]) <= c[2] /\ c[2] <= Max(a[2], b[2])

\* the contribution of edge a b to the winding number of a polygon around c
\* (crossings of the ray from c in direction +x)
EdgeCrossing(a, b, c) ==
  IF a[2] <= c[2]
  THEN IF b[2] > c[2] /\ IsLeft(a, b, c) > 0 THEN 1 ELSE 0
  ELSE IF b[2] <= c[2] /\ IsLeft(a, b, c) < 0 THEN -1 ELSE 0

\* the winding number of the closed polygon poly around c, edges 1..k
RECURSIVE PolygonWinding(_, _, _)
PolygonWinding(poly, c, k) ==
  IF k = 0 THEN 0
  ELSE PolygonWinding(poly, c, k - 1)
       + EdgeCrossing(poly[k], poly[(k % Len(poly)) + 1], c)

OnPolygon(poly, c) ==
  \E k \in DOMAIN poly : OnSegment(poly[k], poly[(k % Len(poly)) + 1], c)

\* C18: when the loop (polyline forward, start-candidate-end path backward)
\* encircles a centre exactly once, the rounded winding number of that
\* centre is exactly one turn, and when the loop does not encircle the
\* centre it is zero, with the step of 0.05.
C18_WindingQuantization ==
  hd_out.called =>
    \A j \in DOMAIN hd_args.obstacle_centers :
      LET c == hd_args.obstacle_centers[j]
          turns == PolygonWinding(HdLoop, c, Len(HdLoop))
      IN  (~ OnPolygon(HdLoop, c) /\ Abs(turns) <= 1) =>
             Abs(HdTurns(j)) = Abs(turns)

\* ------------------------------------------------------------------------
\* plan: samples, inputs and random state
\* ------------------------------------------------------------------------
InExtendedRectangle(p) ==
  /\ -extend_px <= p[1] /\ p[1] <= w + extend_px
  /\ -extend_px <= p[2] /\ p[2] <= h + extend_px
InFrame(p) == 0 <= p[1] /\ p[1] <= w /\ 0 <= p[2] /\ p[2] <= h

\* C19: every sample the search draws lies in the rectangle
\* [-extend_px, w + extend_px] x [-extend_px, h + extend_px]; so a point
\* returned with success = true lies in that rectangle, and it may lie
\* outside the frame.
C19_SamplesInExtendedRectangle ==
  /\ (mode = "plan" /\ drawn > 0) => InExtendedRectangle(sample_px)
  /\ (Returned /\ result.success) =>
        (result.point = sample_px /\ InExtendedRectangle(result.point))

\* a point returned with success = true that lies outside the frame
C19_Witness == Returned /\ result.success /\ ~ InFrame(result.point)

\* C14: plan reads and advances only the pseudo-random stream it seeds
\* itself; no step of plan advances the process-wide random state.
C14_ProcessWideStateUntouched ==
  [][mode = "plan" => np_random' = np_random]_vars

C15_InputsStep ==
  mode = "plan" =>
    UNCHANGED << rgb_shape, predictions, hose_points, regrasp_px, robot_px >>
C15_FreshResult ==
  Returned => result.obj \in {"random_place_px", "sample_px"}

\* C15: plan leaves its inputs unchanged: no step of a call changes the
\* polyline, the regrasp point, the robot position or the obstacle data,
\* whether the call succeeds or returns a fallback; and the returned point
\* is an array made during the call, not one of the inputs.
C15_InputsUnchanged == [][C15_InputsStep]_vars /\ [] C15_FreshResult

\* a second call that returns the fallback after the search ran out
C15_Witness ==
  /\ Returned /\ calls = MaxCalls /\ ~ Degenerate
  /\ ~ result.success /\ result.obj = "random_place_px" /\ i = Budget

\* ------------------------------------------------------------------------
\* is_in_collision called on its own
\* ------------------------------------------------------------------------
\* C12: a sample with x < 0, x >= width, y < 0 or y >= height is reported
\* collision-free and the mask is not read; for every other sample the
\* result is the mask value at row int(y), column int(x), and that index
\* lies inside the mask (never negative, never wrapped around).
C12_CollisionLookupInBounds ==
  ic_out.called =>
    LET x == ic_args.num[1]
        y == ic_args.num[2]
        den == ic_args.den
        rows == ic_args.mask.shape[1]
        cols == ic_args.mask.shape[2]
    IN  IF x < 0 \/ x >= den * cols \/ y < 0 \/ y >= den * rows
        THEN ~ ic_out.value /\ ~ ic_out.indexed
        ELSE /\ ic_out.indexed /\ ~ ic_out.raised
             /\ 0 <= ic_out.row /\ ic_out.row < rows
             /\ 0 <= ic_out.col /\ ic_out.col < cols
             /\ den * ic_out.row <= y /\ y < den * (ic_out.row + 1)
             /\ den * ic_out.col <= x /\ x < den * (ic_out.col + 1)
             /\ ic_out.value = (<< ic_out.col, ic_out.row >> \in ic_args.mask.on)

\* a sample between pixel centres that hits the inflated mask
C12_Witness ==
  /\ ic_out.called /\ ic_out.indexed /\ ic_out.value
  /\ ic_args.num[1] % ic_args.den # 0 /\ ic_args.num[2] % ic_args.den # 0

\* ------------------------------------------------------------------------
\* make_tau called on its own
\* ------------------------------------------------------------------------
TauM == Len(tau_args.waypoints) + 2
\* control point k, k = 0..M-1
TauControl(k) ==
  IF k = 0 THEN tau_args.start
  ELSE IF k = TauM - 1 THEN tau_args.end
  ELSE tau_args.waypoints[k]

\* C17: for t = n/d strictly between 0 and 1 and M = len(waypoints) + 2
\* control points, the path uses idx = floor(t * (M - 1)), which satisfies
\* 0 <= idx <= M - 2, and returns (1 - alpha) * P[idx] + alpha * P[idx + 1]
\* with alpha = t * (M - 1) - idx; tau(k / (M - 1)) is control point k for
\* every k in 0..M-1; and with no waypoints tau(t) = (1 - t) * start +
\* t * end.
C17_PathConstruction ==
  tau_out.called =>
    LET n == tau_args.n
        d == tau_args.d
    IN  /\ (0 < n /\ n < d) =>
             /\ ~ tau_out.raised
             /\ \E idx \in 0..(TauM - 2) :
                  /\ idx * d <= n * (TauM - 1)
                  /\ n * (TauM - 1) < (idx + 1) * d
                  /\ LET a == n * (TauM - 1) - idx * d
                         p == TauControl(idx)
                         q == TauControl(idx + 1)
                     IN  tau_out.z = << (d - a) * p[1] + a * q[1],
                                        (d - a) * p[2] + a * q[2] >>
        /\ \A k \in 0..(TauM - 1) :
             k * d = n * (TauM - 1) =>
               /\ ~ tau_out.raised
               /\ tau_out.z = << d * TauControl(k)[1], d * TauControl(k)[2] >>
        /\ TauM = 2 =>
             tau_out.z = << (d - n) * tau_args.start[1] + n * tau_args.end[1],
                            (d - n) * tau_args.start[2] + n * tau_args.end[2] >>

\* t = k / (M - 1) strictly inside (0, 1) returns an interior control point
\* that is neither start nor end
C17_Witness ==
  /\ tau_out.called /\ 0 < tau_args.n /\ tau_args.n < tau_args.d
  /\ \E k \in 1..(TauM - 2) :
       /\ k * tau_args.d = tau_args.n * (TauM - 1)
       /\ tau_out.z = << tau_args.d * tau_args.waypoints[k][1],
                         tau_args.d * tau_args.waypoints[k][2] >>
       /\ tau_args.waypoints[k] # tau_args.start
       /\ tau_args.waypoints[k] # tau_args.end
  /\ TauM = 4

\* ------------------------------------------------------------------------
\* plan: fallback point, inflated mask, reference distances, sample order
\* ------------------------------------------------------------------------
\* the state of the process-wide generator when the current call started
NpRandomAtEntry == (np_random + UnitDen - 2) % UnitDen

\* once the loop is entered the fallback point is not computed again
C21_LoopStep ==
  (mode = "plan" /\ pc = "loop") =>
    (random_place_px' = random_place_px /\ np_random' = np_random)

C21_FallbackValue ==
  (mode = "plan" /\ pc \in {"loop", "returned"}) =>
    LET noise == np_random_uniform2(NpRandomAtEntry)
    IN  /\ -PerturbPx <= noise[1] /\ noise[1] < PerturbPx
        /\ -PerturbPx <= noise[2] /\ noise[2] < PerturbPx
        /\ random_place_px =
             << Min(Max(regrasp_px[1] + noise[1], 0), w),
                Min(Max(regrasp_px[2] + noise[2], 0), h) >>
        /\ (Returned /\ ~ result.success) => result.point = random_place_px
        /\ InFrame(regrasp_px) =>
             /\ Abs(random_place_px[1] - regrasp_px[1]) <= PerturbPx
             /\ Abs(random_place_px[2] - regrasp_px[2]) <= PerturbPx

\* C21: the fallback point is computed once per call, before the
\* degenerate check, as regrasp_px plus a perturbation in [-150, 150) per
\* coordinate, clamped to the frame; the degenerate path and the exhausted
\* path return that same value; it depends on no obstacle, polyline or
\* robot position; and for a regrasp point inside the frame each
\* coordinate of the fallback is within 150 of it.
C21_FallbackComputedOnce == [] C21_FallbackValue /\ [][C21_LoopStep]_vars

\* the search ran out and the call returns the fallback drawn at its start
C21_Witness ==
  /\ Returned /\ ~ result.success /\ ~ Degenerate /\ i = Budget /\ calls = 1
  /\ InFrame(regrasp_px) /\ result.point # regrasp_px

\* C22: the inflated mask contains every occupied pixel of the raw mask,
\* an all-free raw mask inflates to an all-free mask, and so a point
\* returned with success = true inside the frame is on no raw obstacle
\* pixel.
C22_NoAcceptedSampleOnObstacle ==
  mode = "plan" =>
    /\ obstacles_mask.on \subseteq inflated_obstacles_mask.on
    /\ obstacles_mask.on = {} => inflated_obstacles_mask.on = {}
    /\ (Returned /\ result.success /\ InFrame(result.point)) =>
          /\ result.point \notin obstacles_mask.on
          /\ result.point \notin inflated_obstacles_mask.on

\* an accepted point inside the image while the raw mask has obstacles
C22_Witness ==
  /\ Returned /\ result.success /\ obstacles_mask.on # {}
  /\ 0 <= result.point[1] /\ result.point[1] < w
  /\ 0 <= result.point[2] /\ result.point[2] < h

\* C23: whenever the search loop is entered both reference distances are
\* strictly positive, so relative_distance_deviation never divides by zero
\* in the loop; a regrasp point at zero distance from an anchor takes the
\* degenerate return and never enters the loop.
C23_PositiveReferenceDistancesInLoop ==
  /\ (mode = "plan" /\ pc = "loop") =>
        (dist_to_start0_sq > 0 /\ dist_to_end0_sq > 0)
  /\ (mode = "plan" /\ (dist_to_start0_sq = 0 \/ dist_to_end0_sq = 0)) =>
        /\ pc # "loop"
        /\ drawn = 0
        /\ Returned => ~ result.success

\* a call that has entered its loop and examined one sample
C23_Witness ==
  /\ mode = "plan" /\ pc = "loop" /\ i = 1 /\ calls = 1
  /\ dist_to_start0_sq > 0 /\ dist_to_end0_sq > 0

\* C24: the samples the search examines are a function of the frame
\* height, the frame width and extend_px only: in every call, whatever the
\* polyline, obstacles, regrasp point, robot position and earlier calls,
\* the k-th sample drawn is sample k of the sequence of RandomState(0).
C24_SampleSequenceFixed ==
  (mode = "plan" /\ pc \in {"loop", "returned"}) =>
    /\ drawn > 0 => sample_px = SeededSample(drawn - 1)
    /\ pc = "loop" => (rng.pos = 2 * drawn /\ drawn = i)

\* the second sample of a later call
C24_Witness ==
  /\ mode = "plan" /\ pc = "loop" /\ calls = MaxCalls /\ drawn = 2
  /\ sample_px # SeededSample(0)

\* ------------------------------------------------------------------------
\* The demo script
\* ------------------------------------------------------------------------
\* C25: after a drag that fails to reach the goal, go_to_goal goes on in the
\* same outer iteration to look for the hose and then to the regrasp
\* attempts (align, center obstacles, homotopy_planner.plan, grasp): from a
\* failed drag the regrasp-planning step is eventually reached.
C25_FailedDragReachesRegrasp ==
  (mode = "go_to_goal" /\ dpc = "look_for_hose")
    ~> (mode = "go_to_goal" /\ dpc = "regrasp")

GoalTooFar == NormSq(goal_in_odom, <<0, 0>>) > MaxGoalDist * MaxGoalDist
C26_State ==
  mode = "main" =>
    /\ dpc \in {"go_to_goal", "finish"} => ~ GoalTooFar
    /\ GoalTooFar => cmds \in { << >>, << "find_goal" >> }
C26_Step ==
  (mode = "main" /\ dpc = "check" /\ GoalTooFar) =>
    (dpc' = "find_goal" /\ cmds' = cmds)

\* C26: main starts go_to_goal only with a goal whose (x, y) norm is at
\* most 5.0; a goal farther away is discarded and goal detection is
\* repeated, and no walking or dragging command is issued for it.
C26_FarGoalDiscarded == [] C26_State /\ [][C26_Step]_vars

\* a goal just beyond 5.0 has been discarded and detection is about to be
\* repeated
C26_Witness ==
  /\ mode = "main" /\ dpc = "find_goal" /\ goal_in_odom = <<30, 41>>
  /\ cmds = << "find_goal" >>

\* n failed attempts: n times an arm velocity command and then a stop
VelStop(n) ==
  [k \in 1..(2 * n) |-> IF k % 2 = 1 THEN "arm_velocity" ELSE "stop"]

\* C27: retry_do_grasp makes at most 8 attempts; it returns only right
\* after an attempt whose do_grasp succeeded; a DetectionError in an
\* attempt is absorbed and counts as a failed attempt; every failed attempt
\* is followed by one arm velocity command and then a stop command before
\* the next attempt; after 8 failed attempts it opens the gripper and
\* raises GraspingException.
C27_RetryDoGrasp ==
  mode = "retry_do_grasp" =>
    /\ attempts <= GraspTries
    /\ dpc = "attempt" => cmds = VelStop(attempts)
    /\ dpc = "returned" =>
         (last = "success" /\ attempts >= 1 /\ cmds = VelStop(attempts - 1))
    /\ dpc = "velocity" =>
         /\ last \in {"grasp_failed", "DetectionError"}
         /\ cmds = VelStop(attempts - 1)
    /\ dpc = "stop" => cmds = VelStop(attempts - 1) \o << "arm_velocity" >>
    /\ dpc = "raised" =>
         /\ last = "GraspingException"
         /\ attempts = GraspTries
         /\ cmds = VelStop(GraspTries) \o << "open_gripper" >>
    /\ last = "DetectionError" => dpc \in {"velocity", "stop", "attempt"}

\* the eighth attempt failed too
C27_Witness ==
  /\ mode = "retry_do_grasp" /\ dpc = "raised" /\ attempts = GraspTries
  /\ Len(cmds) = 2 * GraspTries + 1

\* C28: drag_rope_to_goal returns True only from a poll with mobility
\* status PROCESSING and the trajectory at its goal with the body settled;
\* it returns False as soon as a poll shows another mobility status, or
\* high force while the goal is not reached; and go_to_goal leaves its
\* outer loop by the break only after drag_rope_to_goal returned True.
C28_DragResult ==
  /\ (mode = "drag_rope_to_goal" /\ dpc = "returned") =>
       /\ goal_reached <=> (feedback.status = "PROCESSING" /\ feedback.at_goal)
       /\ ~ goal_reached =>
            \/ feedback.status # "PROCESSING"
            \/ (~ feedback.at_goal /\ feedback.high_force)
  /\ (mode = "drag_rope_to_goal" /\ dpc = "poll" /\ feedback # NoFeedback) =>
       /\ feedback.status = "PROCESSING"
       /\ ~ feedback.at_goal /\ ~ feedback.high_force
  /\ (mode = "go_to_goal" /\ dpc = "returned") => goal_reached

\* the drag arrived although the force is high in the same poll
C28_Witness ==
  /\ mode = "drag_rope_to_goal" /\ dpc = "returned" /\ goal_reached
  /\ feedback.high_force

C29_State ==
  mode = "get_point_f_retry" =>
    /\ attempts <= SpiralSteps + 1
    /\ dpc = "look" => cmds = << >>
    /\ dpc # "look" => cmds[1] = "look_at_scene"
    /\ \A k \in 2..Len(cmds) : cmds[k] = "gaze"
    /\ dpc = "pre_spiral" => (Len(cmds) = 1 /\ attempts = 0)
    /\ dpc = "attempt" => (Len(cmds) = 1 + attempts /\ spiral = attempts)
    /\ dpc = "gaze" => (Len(cmds) = attempts /\ last = "DetectionError")
    /\ dpc = "returned" => (last = "result" /\ Len(cmds) = attempts)
    /\ (dpc = "raised" /\ last = "StopIteration") =>
         (attempts = SpiralSteps + 1 /\ Len(cmds) = attempts)
    /\ (dpc = "raised" /\ last = "DetectionError") =>
         (attempts <= 1 /\ Len(cmds) = 1)
C29_Done == dpc \in {"returned", "raised"}

\* C29: get_point_f_retry always terminates: it returns the result of the
\* first attempt that does not raise DetectionError, sends exactly one gaze
\* command of the 35-step spiral after each failed attempt, and after at
\* most 36 attempts it ends by raising; the first pass over the 23-step
\* spiral sends no command.
C29_GetPointRetryTerminates ==
  [] C29_State /\ (mode = "get_point_f_retry" => <> C29_Done)

\* the spiral ran out: 36 attempts, 35 gaze commands
C29_Witness ==
  /\ mode = "get_point_f_retry" /\ dpc = "raised" /\ last = "StopIteration"
  /\ attempts = SpiralSteps + 1

\* ------------------------------------------------------------------------
\* create_graph_objects
\* ------------------------------------------------------------------------
\* the waypoints joined to those of S by one edge, taken in either direction
Neighbours(S) ==
  { graph.edges[k][2] : k \in { j \in DOMAIN graph.edges : graph.edges[j][1] \in S } }
    \cup
  { graph.edges[k][1] : k \in { j \in DOMAIN graph.edges : graph.edges[j][2] \in S } }
RECURSIVE ConnectedTo(_)
ConnectedTo(S) ==
  IF Neighbours(S) \subseteq S THEN S ELSE ConnectedTo(S \cup Neighbours(S))
ConnectedToFirst ==
  IF Len(graph.waypoints) = 0 THEN {} ELSE ConnectedTo({graph.waypoints[1]})

\* C30: when the breadth-first traversal of create_graph_objects has ended,
\* the waypoint actors of each waypoint were created at most once and the
\* waypoints visited are exactly those connected to the first waypoint of
\* the graph by edges taken in either direction.
C30_VisitsConnectedWaypoints ==
  (mode = "create_graph_objects" /\ gpc \in {"returned", "raised"}) =>
    /\ \A a, b \in DOMAIN actors :
         (actors[a] = actors[b] /\ actors[a][1] = "sphere") => a = b
    /\ visited = ConnectedToFirst

====
